---- MODULE Spec2Model ----
(***************************************************************************)
(* Model of src/main.py: a Telegram group moderation bot.                  *)
(*                                                                         *)
(* Strings are tuples of one-character strings, so that lower(), strip(),  *)
(* split results, isdigit(), int() and endswith() are computed the way the *)
(* Python code computes them.  The three SQLite tables are sets of rows    *)
(* and the statements are translated with their conflict clauses.  Time is *)
(* counted in ticks of 1/TicksPerSec second, so that int(time.time())      *)
(* really truncates.                                                       *)
(***************************************************************************)
EXTENDS Integers, Sequences, FiniteSets, TLC

VARIABLES chat_settings, whitelist_domains, join_times, FLOOD_BUCKET,
          clock, ev, out, hist, ret, nCmds, nMsgs, nJoins, nTicks, nCalls,
          inflight

vars == <<chat_settings, whitelist_domains, join_times, FLOOD_BUCKET,
          clock, ev, out, hist, ret, nCmds, nMsgs, nJoins, nTicks, nCalls,
          inflight>>

(***************************************************************************)
(* Bounds of the exploration.  MaxSteps bounds the updates and clock steps *)
(* of Spec, the MaxFlood* bounds those of SpecFlood, MaxCalls the calls of *)
(* SpecStore.  SqliteIntMax stands for 2^63 - 1, the largest integer the   *)
(* sqlite3 module binds, scaled down to the numerals the commands use.     *)
(***************************************************************************)
MaxSteps == 2
MaxFloodCmds == 1
MaxFloodMsgs == 3
MaxFloodTicks == 2
MaxCalls == 3
MaxTasks == 3
MaxConcTicks == 1
MaxConcCmds == 1
MaxJoinSteps == 4
MaxCmdSteps == 2
MaxLogSteps == 4
TicksPerSec == 2
SqliteIntMax == 8

Chats == {1, 2}
Users == {1, 2}

(***************************************************************************)
(* Strings.                                                                *)
(***************************************************************************)
S_on == <<"o", "n">>
S_off == <<"o", "f", "f">>
S_OFF == <<"O", "F", "F">>
S_here == <<"h", "e", "r", "e">>
S_add == <<"a", "d", "d">>
S_ADD == <<"A", "d", "d">>
S_del == <<"d", "e", "l">>
S_x == <<"x">>
S_0 == <<"0">>
S_1 == <<"1">>
S_2 == <<"2">>
S_99 == <<"9", "9">>
S_sup2 == <<"^2">>
S_neg1 == <<"-", "1">>

D_ex == <<"e", ".", "c">>
D_EX == <<"E", ".", "c">>
D_pad == <<" ", "e", ".", "c", " ">>
D_sub == <<"s", ".", "e", ".", "c">>
D_not == <<"n", "e", ".", "c">>
D_evil == <<"e", ".", "c", ".", "x">>
D_www == <<"w", "w", "w", ".">>
D_tme == <<"t", ".", "m", "e">>

LowerChar(c) ==
    CASE c = "A" -> "a"
      [] c = "C" -> "c"
      [] c = "E" -> "e"
      [] c = "F" -> "f"
      [] c = "O" -> "o"
      [] c = "S" -> "s"
      [] OTHER -> c

lower(s) == [i \in 1..Len(s) |-> LowerChar(s[i])]

RECURSIVE lstrip(_)
lstrip(s) == IF s # <<>> /\ Head(s) = " " THEN lstrip(Tail(s)) ELSE s

RECURSIVE rstrip(_)
rstrip(s) ==
    IF s # <<>> /\ s[Len(s)] = " " THEN rstrip(SubSeq(s, 1, Len(s) - 1)) ELSE s

strip(s) == rstrip(lstrip(s))

endswith(s, suffix) ==
    /\ Len(suffix) <= Len(s)
    /\ SubSeq(s, Len(s) - Len(suffix) + 1, Len(s)) = suffix

DigitChars == {"0", "1", "2", "9"}

DigitVal(c) == CASE c = "0" -> 0 [] c = "1" -> 1 [] c = "2" -> 2 [] c = "9" -> 9
                 [] OTHER -> 0

\* str.isdigit(): non-empty and every character is a digit; the
\* superscript two is a digit for isdigit() although int() rejects it.
isdigit(s) == s # <<>> /\ \A i \in 1..Len(s) : s[i] \in DigitChars \cup {"^2"}

\* int() raises ValueError on a superscript digit.
int_ok(s) == s # <<>> /\ \A i \in 1..Len(s) : s[i] \in DigitChars

RECURSIVE int(_)
int(s) == IF s = <<>> THEN 0 ELSE 10 * int(SubSeq(s, 1, Len(s) - 1)) + DigitVal(s[Len(s)])

(***************************************************************************)
(* DB: chat_settings                                                       *)
(***************************************************************************)
DefaultRow(chat_id) ==
    [chat_id |-> chat_id, anti_links |-> 1, flood_n |-> 6,
     flood_window_sec |-> 10, flood_mute_min |-> 15,
     newbie_protect_min |-> 15, log_mode |-> S_here]

init_db == {}

\* INSERT OR REPLACE: an existing row is reset to the defaults
ensure_chat_replace(cs, chat_id) ==
    {r \in cs : r.chat_id # chat_id} \cup {DefaultRow(chat_id)}

\* INSERT OR IGNORE INTO chat_settings(chat_id)
ensure_chat(cs, chat_id) ==
    IF \E r \in cs : r.chat_id = chat_id THEN cs ELSE cs \cup {DefaultRow(chat_id)}

\* SELECT * FROM chat_settings WHERE chat_id=? ... fetchone(), after ensure_chat
get_settings(cs, chat_id) ==
    CHOOSE r \in ensure_chat(cs, chat_id) : r.chat_id = chat_id

IntKeys == {"anti_links", "flood_n", "flood_window_sec", "flood_mute_min",
            "newbie_protect_min"}

\* binding a Python int outside the 64-bit range raises OverflowError
bind_ok(key, value) == key \in IntKeys => value <= SqliteIntMax

\* UPDATE chat_settings SET key=? WHERE chat_id=?, after ensure_chat
set_setting(cs, chat_id, key, value) ==
    IF bind_ok(key, value)
    THEN {IF r.chat_id = chat_id THEN [r EXCEPT ![key] = value] ELSE r :
            r \in ensure_chat(cs, chat_id)}
    ELSE ensure_chat(cs, chat_id)

(***************************************************************************)
(* DB: whitelist_domains                                                   *)
(***************************************************************************)
\* the domain inserted as given, trimmed but not lower-cased
add_whitelist_keep_case(wd, chat_id, domain) == wd \cup {<<chat_id, strip(domain)>>}

\* INSERT OR IGNORE INTO whitelist_domains(chat_id, domain), domain normalised
add_whitelist(wd, chat_id, domain) == wd \cup {<<chat_id, strip(lower(domain))>>}

\* SELECT domain FROM whitelist_domains WHERE chat_id=?
list_whitelist(wd, chat_id) == {p[2] : p \in {q \in wd : q[1] = chat_id}}

(***************************************************************************)
(* DB: join_times                                                          *)
(***************************************************************************)
None == -1

\* INSERT OR IGNORE: the first join of a user stays
record_join_keep_first(jt, chat_id, user_id, ts) ==
    IF \E r \in jt : r.chat_id = chat_id /\ r.user_id = user_id THEN jt
    ELSE jt \cup {[chat_id |-> chat_id, user_id |-> user_id, joined_at_ts |-> ts]}

\* INSERT OR REPLACE INTO join_times(chat_id, user_id, joined_at_ts)
record_join(jt, chat_id, user_id, ts) ==
    {r \in jt : ~(r.chat_id = chat_id /\ r.user_id = user_id)}
        \cup {[chat_id |-> chat_id, user_id |-> user_id, joined_at_ts |-> ts]}

get_join_ts(jt, chat_id, user_id) ==
    IF \E r \in jt : r.chat_id = chat_id /\ r.user_id = user_id
    THEN (CHOOSE r \in jt : r.chat_id = chat_id /\ r.user_id = user_id).joined_at_ts
    ELSE None

(***************************************************************************)
(* Helpers                                                                 *)
(***************************************************************************)
ST_ADMIN == "administrator"
ST_OWNER == "creator"
ST_MEMBER == "member"
ST_ERROR == "error"

\* is_adminish that forgets the owner
is_adminish_admin_only(member_status) == member_status = ST_ADMIN

is_adminish(member_status) == member_status \in {ST_ADMIN, ST_OWNER}

\* the suffix test without the dot
domain_allowed_bare_suffix(wd, chat_id, domain) ==
    LET wl == list_whitelist(wd, chat_id)
        d == lower(domain)
    IN \E w \in wl : d = w \/ endswith(d, w)

\* allow exact or subdomain of whitelisted
domain_allowed(wd, chat_id, domain) ==
    LET wl == list_whitelist(wd, chat_id)
        d == lower(domain)
    IN \E w \in wl : d = w \/ endswith(d, <<".">> \o w)

(***************************************************************************)
(* Message text: the URL_RE matches of the text, in order.  A match is     *)
(* [pre, rest]: pre is the alternative of URL_RE that matched and rest the *)
(* host characters that follow it (up to the first "/").                   *)
(***************************************************************************)
Http(h) == [pre |-> "http", rest |-> h]
Www(h) == [pre |-> "www", rest |-> h]
Tme == [pre |-> "tme", rest |-> <<>>]

\* urlparse raises ValueError on an unbalanced bracket in the netloc
urlparse_ok(m) == \A i \in 1..Len(m.rest) : m.rest[i] # "["

netloc(m) ==
    CASE m.pre = "http" -> m.rest
      [] m.pre = "www" -> D_www \o m.rest
      [] OTHER -> D_tme

RECURSIVE extract_domains(_)
extract_domains(text) ==
    IF text = <<>> THEN <<>>
    ELSE LET m == Head(text)
         IN (IF urlparse_ok(m) /\ netloc(m) # <<>>
             THEN <<lower(netloc(m))>> ELSE <<>>)
            \o extract_domains(Tail(text))

(***************************************************************************)
(* Actions handed to the Telegram API, in call order.  ok is the outcome   *)
(* of the call (for a Log: whether log_action sent the message at all).    *)
(***************************************************************************)
Delete(ok) == [a |-> "Delete", text |-> "", min |-> 0, ok |-> ok]
Restrict(minutes, ok) == [a |-> "Restrict", text |-> "", min |-> minutes, ok |-> ok]
Reply(text) == [a |-> "Reply", text |-> text, min |-> 0, ok |-> TRUE]

\* log_action: nothing is sent when log_mode is "off"; a failed send is swallowed
log_action(cs, chat_id, text, minutes) ==
    [a |-> "Log", text |-> text, min |-> minutes,
     ok |-> get_settings(cs, chat_id).log_mode # S_off]

SecPerMin == 60

is_newbie(s, join_ts, now) ==
    /\ join_ts # None
    /\ join_ts # 0
    /\ now - join_ts * TicksPerSec < s.newbie_protect_min * SecPerMin * TicksPerSec

\* the bucket kept as a set of instants: a second message of the same instant
\* adds nothing
flood_bucket_set(bucket, now, win) ==
    LET kept == SelectSeq(bucket, LAMBDA t : now - t <= win * TicksPerSec)
    IN IF \E i \in 1..Len(kept) : kept[i] = now THEN kept ELSE Append(kept, now)

\* nothing is ever discarded
flood_bucket_no_trim(bucket, now, win) == Append(bucket, now)

\* bucket = [t for t in bucket if now - t <= win]; bucket.append(now)
flood_bucket(bucket, now, win) ==
    Append(SelectSeq(bucket, LAMBDA t : now - t <= win * TicksPerSec), now)

(***************************************************************************)
(* Events                                                                  *)
(***************************************************************************)
Statuses == {ST_ADMIN, ST_OWNER, ST_MEMBER, ST_ERROR}

T_none == <<>>
T_ex == <<Http(D_EX)>>
T_mix == <<Www(D_ex), Tme>>
T_skip == <<Http(<<"[">>), Http(<<>>)>>

\* fwd: which of forward_date / forward_origin is set; attach: the attachment
Content(text, fwd, attach) == [text |-> text, fwd |-> fwd, attach |-> attach]

Contents ==
    {Content(T_none, "none", "none"), Content(T_ex, "none", "none"),
     Content(T_mix, "none", "none"), Content(T_skip, "none", "none"),
     Content(T_none, "date", "none"), Content(T_none, "origin", "photo"),
     Content(T_none, "none", "photo"), Content(T_none, "none", "video"),
     Content(T_none, "none", "document"), Content(T_mix, "date", "document")}

NoUser == 0

Event(chat, user, sender, status, c) ==
    [chat |-> chat, user |-> user, sender |-> sender, status |-> status,
     text |-> c.text, fwd |-> c.fwd, attach |-> c.attach]

Events ==
    {Event(chat, user, TRUE, st, c) :
        chat \in Chats, user \in Users, st \in Statuses, c \in Contents}
    \cup
    {Event(chat, NoUser, FALSE, ST_MEMBER, Content(T_mix, "none", "none")) :
        chat \in Chats}

Ev(h, chat, status) ==
    [h |-> h, chat |-> chat, user |-> NoUser, sender |-> TRUE, status |-> status,
     text |-> <<>>, fwd |-> "none", attach |-> "none"]

MsgEv(e) ==
    [h |-> "security_filter", chat |-> e.chat, user |-> e.user, sender |-> e.sender,
     status |-> e.status, text |-> e.text, fwd |-> e.fwd, attach |-> e.attach]

(***************************************************************************)
(* security_filter: the set of runs of one invocation; the runs differ in  *)
(* the outcome of the delete and restrict calls.                           *)
(***************************************************************************)
\* any() written for all(): a violation only when no domain is allowed
link_violation_none_allowed(s, wd, chat_id, domains) ==
    /\ s.anti_links = 1
    /\ domains # <<>>
    /\ ~(\E i \in 1..Len(domains) : domain_allowed(wd, chat_id, domains[i]))

\* if not all(domain_allowed(chat_id, d) for d in domains), under anti_links
link_violation(s, wd, chat_id, domains) ==
    /\ s.anti_links = 1
    /\ domains # <<>>
    /\ ~(\A i \in 1..Len(domains) : domain_allowed(wd, chat_id, domains[i]))

is_forward(e) == e.fwd = "date" \/ e.fwd = "origin"

has_media(e) == e.attach = "photo" \/ e.attach = "video" \/ e.attach = "document"

\* the comparison taken as "at least n"
\* only the message that crosses the limit is answered
flood_exceeded_once(bucket, n) == Len(bucket) = n + 1

flood_exceeded_at_limit(bucket, n) == Len(bucket) >= n

\* if len(bucket) > n
flood_exceeded(bucket, n) == Len(bucket) > n

\* a failed lookup counted as an admin
skip_admin_fail_open(status) == status = ST_ERROR \/ is_adminish(status)

\* try: member = await get_chat_member(...); if is_adminish(member.status): return
\* except Exception: pass
skip_admin(status) == status # ST_ERROR /\ is_adminish(status)

Run(acts, fb, cs, path) == [acts |-> acts, FB |-> fb, cs |-> cs, path |-> path]

security_filter_runs(cs, wd, jt, FB, now, e) ==
    LET chat_id == e.chat
        user_id == e.user
        cs1 == ensure_chat(cs, chat_id)
        s == get_settings(cs, chat_id)
        newbie == is_newbie(s, get_join_ts(jt, chat_id, user_id), now)
        domains == extract_domains(e.text)
        mute == s.flood_mute_min
        key == <<chat_id, user_id>>
        bucket == flood_bucket(FB[key], now, s.flood_window_sec)
        FB1 == [FB EXCEPT ![key] = bucket]
        LogLink == log_action(cs1, chat_id, "Deleted link", 0)
        LogMuteLink == log_action(cs1, chat_id, "Muted newbie for links", mute)
        LogForward == log_action(cs1, chat_id, "Deleted forward from newbie", 0)
        LogMedia == log_action(cs1, chat_id, "Deleted media from newbie", 0)
        LogFlood == log_action(cs1, chat_id, "Muted for flood", mute)
    IN  IF ~e.sender
        THEN {Run(<<>>, FB, cs, "nosender")}
        ELSE IF skip_admin(e.status)
        THEN {Run(<<>>, FB, cs, "admin")}
        ELSE IF link_violation(s, wd, chat_id, domains)
        THEN {Run(<<Delete(FALSE)>>, FB, cs1, "link")}
             \cup (IF newbie
                   THEN {Run(<<Delete(TRUE), LogLink, Restrict(mute, FALSE)>>,
                             FB, cs1, "link"),
                         Run(<<Delete(TRUE), LogLink, Restrict(mute, TRUE), LogMuteLink>>,
                             FB, cs1, "link")}
                   ELSE {Run(<<Delete(TRUE), LogLink>>, FB, cs1, "link")})
        ELSE IF newbie /\ is_forward(e)
        THEN {Run(<<Delete(FALSE)>>, FB, cs1, "forward"),
              Run(<<Delete(TRUE), LogForward>>, FB, cs1, "forward")}
        ELSE IF newbie /\ has_media(e)
        THEN {Run(<<Delete(FALSE)>>, FB, cs1, "media"),
              Run(<<Delete(TRUE), LogMedia>>, FB, cs1, "media")}
        ELSE IF flood_exceeded(bucket, s.flood_n)
        THEN {Run(<<Restrict(mute, FALSE)>>, FB1, cs1, "flood"),
              Run(<<Restrict(mute, TRUE), LogFlood>>, FB1, cs1, "flood")}
        ELSE {Run(<<>>, FB1, cs1, "flood")}

HasA(acts, a) == \E i \in 1..Len(acts) : acts[i].a = a

CountA(acts, a) == Cardinality({i \in 1..Len(acts) : acts[i].a = a})

\* what one flood-counted run saw and did: the time it took, the length of the
\* bucket it compared with flood_n, the limits it used, the Restricts it issued
Counted(task, now, r, s, k) ==
    [t |-> now, r |-> CountA(r.acts, "Restrict"), n |-> s.flood_n,
     win |-> s.flood_window_sec, cnt |-> Len(r.FB[k]), task |-> task]

security_filter(e) ==
    /\ \E r \in security_filter_runs(chat_settings, whitelist_domains, join_times,
                                     FLOOD_BUCKET, clock, e) :
          /\ chat_settings' = r.cs
          /\ FLOOD_BUCKET' = r.FB
          /\ out' = r.acts
          /\ hist' = IF r.path = "flood"
                     THEN LET k == <<e.chat, e.user>>
                              s == get_settings(chat_settings, e.chat)
                          IN [hist EXCEPT ![k] = Append(@,
                                Counted(0, clock, r, s, k))]
                     ELSE hist
    /\ ev' = MsgEv(e)
    /\ nMsgs' = nMsgs + 1
    /\ UNCHANGED <<whitelist_domains, join_times, clock, ret, nCmds, nJoins, nTicks,
                   nCalls, inflight>>

\* the exception of a failed send leaves the handler
after_failed_send_raise(rest) == <<>>

\* log_action: try: await send_message(...) except Exception: pass -- the
\* calls that follow a log whose send failed
after_failed_send(rest) == rest

\* the calls of a run with the outcome of every send_message: ok of a Log is
\* now whether the message went out
RECURSIVE log_sends(_)
log_sends(acts) ==
    IF acts = <<>> THEN {<<>>}
    ELSE LET a == Head(acts)
             sent == {<<a>> \o t : t \in log_sends(Tail(acts))}
         IN IF a.a = "Log" /\ a.ok
            THEN sent \cup {<<[a EXCEPT !.ok = FALSE]>> \o t :
                               t \in log_sends(after_failed_send(Tail(acts)))}
            ELSE sent

\* security_filter with the outcome of its send_message calls
security_filter_sending(e) ==
    /\ \E r \in security_filter_runs(chat_settings, whitelist_domains, join_times,
                                     FLOOD_BUCKET, clock, e) :
          /\ chat_settings' = r.cs
          /\ FLOOD_BUCKET' = r.FB
          /\ out' \in log_sends(r.acts)
          /\ hist' = IF r.path = "flood"
                     THEN LET k == <<e.chat, e.user>>
                              s == get_settings(chat_settings, e.chat)
                          IN [hist EXCEPT ![k] = Append(@,
                                Counted(0, clock, r, s, k))]
                     ELSE hist
    /\ ev' = MsgEv(e)
    /\ nMsgs' = nMsgs + 1
    /\ UNCHANGED <<whitelist_domains, join_times, clock, ret, nCmds, nJoins, nTicks,
                   nCalls, inflight>>

\* on_new_member: every new member is recorded with ts = int(time.time())
RECURSIVE record_joins(_, _, _, _)
record_joins(jt, chat_id, members, ts) ==
    IF members = <<>> THEN jt
    ELSE record_joins(record_join(jt, chat_id, Head(members), ts), chat_id,
                      Tail(members), ts)

MemberLists == {<<>>} \cup {<<u>> : u \in Users} \cup {<<1, 2>>}

on_new_member(chat_id, members) ==
    /\ join_times' = IF members = <<>> THEN join_times
                     ELSE record_joins(join_times, chat_id, members, clock \div TicksPerSec)
    /\ ev' = Ev("on_new_member", chat_id, ST_MEMBER)
    /\ out' = <<>>
    /\ ret' = [op |-> "on_new_member", chat |-> chat_id, members |-> members,
                before |-> join_times]
    /\ nJoins' = nJoins + 1
    /\ UNCHANGED <<chat_settings, whitelist_domains, FLOOD_BUCKET, clock, hist,
                   nCmds, nMsgs, nTicks, nCalls, inflight>>

\* time.time() advances between events
TickSteps ==
    {1, SecPerMin * TicksPerSec,
     DefaultRow(1).newbie_protect_min * SecPerMin * TicksPerSec}

Tick(d) ==
    /\ clock' = clock + d
    /\ nTicks' = nTicks + 1
    /\ UNCHANGED <<chat_settings, whitelist_domains, join_times, FLOOD_BUCKET, ev,
                   out, hist, ret, nCmds, nMsgs, nJoins, nCalls, inflight>>

(***************************************************************************)
(* Commands.  args is parts[1:] of update.message.text.split().  A run is  *)
(* the tables after the handler and the replies it sent; a handler that    *)
(* raises sends nothing further.                                           *)
(***************************************************************************)
CmdRun(cs, wd, acts) == [cs |-> cs, wd |-> wd, acts |-> acts]

\* every sender whose lookup answers is let through
require_admin_anyone(status) ==
    IF status = ST_ERROR THEN "raise" ELSE "ok"

\* require_admin: get_chat_member may raise (the handler dies), a plain
\* member gets the "admins only" reply
require_admin(status) ==
    IF status = ST_ERROR THEN "raise"
    ELSE IF ~is_adminish(status) THEN "deny"
    ELSE "ok"

Guarded(cs, wd, status, run) ==
    CASE require_admin(status) = "raise" -> CmdRun(cs, wd, <<>>)
      [] require_admin(status) = "deny" -> CmdRun(cs, wd, <<Reply("admins only")>>)
      [] OTHER -> run

antilinks_cmd_run(cs, wd, chat_id, status, args) ==
    Guarded(cs, wd, status,
        IF Len(args) # 1 \/ lower(args[1]) \notin {S_on, S_off}
        THEN CmdRun(cs, wd, <<Reply("usage")>>)
        ELSE CmdRun(set_setting(cs, chat_id, "anti_links",
                                IF lower(args[1]) = S_on THEN 1 ELSE 0),
                    wd, <<Reply("ok")>>))

whitelist_cmd_run(cs, wd, chat_id, status, args) ==
    Guarded(cs, wd, status,
        IF Len(args) < 1
        THEN CmdRun(cs, wd, <<Reply("usage")>>)
        ELSE IF lower(args[1]) # S_add \/ Len(args) # 2
        THEN CmdRun(cs, wd, <<Reply("usage")>>)
        ELSE CmdRun(ensure_chat(cs, chat_id), add_whitelist(wd, chat_id, args[2]),
                    <<Reply("added")>>))

\* set_setting calls in order; the first one whose value cannot be bound
\* raises and the handler stops there, keeping the earlier writes
RECURSIVE set_settings_seq(_, _, _)
set_settings_seq(cs, chat_id, kvs) ==
    IF kvs = <<>> THEN [cs |-> cs, ok |-> TRUE]
    ELSE LET kv == Head(kvs)
         IN IF bind_ok(kv[1], kv[2])
            THEN set_settings_seq(set_setting(cs, chat_id, kv[1], kv[2]), chat_id, Tail(kvs))
            ELSE [cs |-> set_setting(cs, chat_id, kv[1], kv[2]), ok |-> FALSE]

flood_cmd_run(cs, wd, chat_id, status, args) ==
    Guarded(cs, wd, status,
        IF Len(args) # 3 \/ ~(\A i \in 1..Len(args) : isdigit(args[i]))
        THEN CmdRun(cs, wd, <<Reply("usage")>>)
        ELSE IF ~(\A i \in 1..3 : int_ok(args[i]))
        THEN CmdRun(cs, wd, <<>>)
        ELSE LET w == set_settings_seq(cs, chat_id,
                        << <<"flood_n", int(args[1])>>,
                           <<"flood_window_sec", int(args[2])>>,
                           <<"flood_mute_min", int(args[3])>> >>)
             IN CmdRun(w.cs, wd, IF w.ok THEN <<Reply("ok")>> ELSE <<>>))

newbie_cmd_run(cs, wd, chat_id, status, args) ==
    Guarded(cs, wd, status,
        IF Len(args) # 1 \/ ~isdigit(args[1])
        THEN CmdRun(cs, wd, <<Reply("usage")>>)
        ELSE IF ~int_ok(args[1])
        THEN CmdRun(cs, wd, <<>>)
        ELSE LET w == set_settings_seq(cs, chat_id,
                        << <<"newbie_protect_min", int(args[1])>> >>)
             IN CmdRun(w.cs, wd, IF w.ok THEN <<Reply("ok")>> ELSE <<>>))

log_cmd_run(cs, wd, chat_id, status, args) ==
    Guarded(cs, wd, status,
        IF Len(args) # 1 \/ lower(args[1]) \notin {S_here, S_off}
        THEN CmdRun(cs, wd, <<Reply("usage")>>)
        ELSE CmdRun(set_setting(cs, chat_id, "log_mode", lower(args[1])),
                    wd, <<Reply("ok")>>))

\* status_cmd has no admin check; get_settings and list_whitelist create the row
status_cmd_run(cs, wd, chat_id) == CmdRun(ensure_chat(cs, chat_id), wd, <<Reply("status")>>)

AntilinksArgs == {<<>>, <<S_on>>, <<S_off>>, <<S_OFF>>, <<S_x>>, <<S_on, S_x>>}
LogArgs == {<<>>, <<S_here>>, <<S_off>>, <<S_OFF>>, <<S_x>>, <<S_here, S_x>>}
WhitelistArgs ==
    {<<>>, <<S_add>>, <<S_del, D_ex>>, <<S_add, D_ex, D_not>>}
    \cup {<<a, d>> : a \in {S_add, S_ADD}, d \in {D_ex, D_EX, D_tme}}
FloodArgs ==
    {<<S_0, S_0, S_0>>, <<S_0, S_1, S_1>>, <<S_1, S_1, S_1>>, <<S_2, S_1, S_2>>,
     <<S_1, S_0, S_1>>}
    \cup {<<>>, <<S_1, S_1>>, <<S_1, S_1, S_1, S_1>>, <<S_1, S_x, S_1>>,
          <<S_neg1, S_1, S_1>>, <<S_1, S_1, S_sup2>>, <<S_1, S_99, S_1>>,
          <<S_99, S_1, S_1>>}
NewbieArgs == {<<>>, <<S_0>>, <<S_1>>, <<S_x>>, <<S_neg1>>, <<S_sup2>>, <<S_99>>,
               <<S_1, S_1>>}

Command(h, chat_id, status, run) ==
    /\ chat_settings' = run.cs
    /\ whitelist_domains' = run.wd
    /\ out' = run.acts
    /\ ev' = Ev(h, chat_id, status)
    /\ nCmds' = nCmds + 1
    /\ UNCHANGED <<join_times, FLOOD_BUCKET, clock, hist, ret, nMsgs, nJoins, nTicks,
                   nCalls, inflight>>

start(chat_id) ==
    Command("start", chat_id, ST_MEMBER,
            CmdRun(chat_settings, whitelist_domains, <<Reply("alive")>>))

help_cmd(chat_id) ==
    Command("help_cmd", chat_id, ST_MEMBER,
            CmdRun(chat_settings, whitelist_domains, <<Reply("help")>>))

status_cmd(chat_id) ==
    Command("status_cmd", chat_id, ST_MEMBER,
            status_cmd_run(chat_settings, whitelist_domains, chat_id))

antilinks_cmd(chat_id, status, args) ==
    Command("antilinks_cmd", chat_id, status,
            antilinks_cmd_run(chat_settings, whitelist_domains, chat_id, status, args))

whitelist_cmd(chat_id, status, args) ==
    Command("whitelist_cmd", chat_id, status,
            whitelist_cmd_run(chat_settings, whitelist_domains, chat_id, status, args))

flood_cmd(chat_id, status, args) ==
    Command("flood_cmd", chat_id, status,
            flood_cmd_run(chat_settings, whitelist_domains, chat_id, status, args))

newbie_cmd(chat_id, status, args) ==
    Command("newbie_cmd", chat_id, status,
            newbie_cmd_run(chat_settings, whitelist_domains, chat_id, status, args))

log_cmd(chat_id, status, args) ==
    Command("log_cmd", chat_id, status,
            log_cmd_run(chat_settings, whitelist_domains, chat_id, status, args))

(***************************************************************************)
(* The program: the handlers registered by build_handlers, one update at a *)
(* time.                                                                   *)
(***************************************************************************)
Keys2 == Chats \X Users

\* the handler invocations the event loop can have in flight at once
Tasks == 1..MaxTasks

NoTask ==
    [pc |-> "idle", acts |-> <<>>,
     e |-> Event(1, NoUser, FALSE, ST_MEMBER, Content(T_none, "none", "none"))]

NoRet == [op |-> "none"]

Steps == nCmds + nMsgs + nJoins + nTicks

Init ==
    /\ chat_settings = init_db
    /\ whitelist_domains = {}
    /\ join_times = {}
    /\ FLOOD_BUCKET = [k \in Keys2 |-> <<>>]
    /\ clock = TicksPerSec
    /\ ev = Ev("init", 1, ST_MEMBER)
    /\ out = <<>>
    /\ hist = [k \in Keys2 |-> <<>>]
    /\ ret = NoRet
    /\ nCmds = 0
    /\ nMsgs = 0
    /\ nJoins = 0
    /\ nTicks = 0
    /\ nCalls = 0
    /\ inflight = [i \in Tasks |-> NoTask]

Budget == Steps < MaxSteps

Next ==
    \/ Budget /\ \E d \in TickSteps : Tick(d)
    \/ Budget /\ \E c \in Chats : start(c)
    \/ Budget /\ \E c \in Chats : help_cmd(c)
    \/ Budget /\ \E c \in Chats : status_cmd(c)
    \/ Budget /\ \E c \in Chats, st \in Statuses, args \in AntilinksArgs :
                    antilinks_cmd(c, st, args)
    \/ Budget /\ \E c \in Chats, st \in Statuses, args \in WhitelistArgs :
                    whitelist_cmd(c, st, args)
    \/ Budget /\ \E c \in Chats, st \in Statuses, args \in FloodArgs :
                    flood_cmd(c, st, args)
    \/ Budget /\ \E c \in Chats, st \in Statuses, args \in NewbieArgs :
                    newbie_cmd(c, st, args)
    \/ Budget /\ \E c \in Chats, st \in Statuses, args \in LogArgs : log_cmd(c, st, args)
    \/ Budget /\ \E c \in Chats, members \in MemberLists : on_new_member(c, members)
    \/ Budget /\ \E e \in Events : security_filter(e)

Spec == Init /\ [][Next]_vars

(***************************************************************************)
(* The flood scenario: one chat, its members posting plain or link         *)
(* messages half a second apart at the closest, and /flood commands.       *)
(***************************************************************************)
FloodEvents ==
    {Event(1, user, TRUE, st, c) :
        user \in Users, st \in {ST_MEMBER, ST_ADMIN},
        c \in {Content(T_none, "none", "none"), Content(T_ex, "none", "none")}}

NextFlood ==
    \/ /\ nTicks < MaxFloodTicks
       /\ Tick(1)
    \/ /\ nCmds < MaxFloodCmds
       /\ \E st \in {ST_ADMIN, ST_MEMBER}, args \in FloodArgs : flood_cmd(1, st, args)
    \/ /\ nMsgs < MaxFloodMsgs
       /\ \E e \in FloodEvents : security_filter(e)

SpecFlood == Init /\ [][NextFlood]_vars

(***************************************************************************)
(* Concurrent invocations: the event loop runs each security_filter call   *)
(* as a coroutine that gives up control only at an await.  The code        *)
(* between two awaits runs without interruption, so an invocation is three *)
(* steps: up to the await of get_chat_member, from there to the first      *)
(* actuator call (which holds the settings read, the rule choice and the   *)
(* whole flood section), and the actuator calls.                           *)
(***************************************************************************)
ConcEvents ==
    {Event(1, user, TRUE, ST_MEMBER, Content(T_none, "none", "none")) : user \in Users}
    \cup {Event(1, 1, TRUE, ST_MEMBER, Content(T_ex, "none", "none"))}

ConcFloodArgs == {<<S_1, S_0, S_1>>}

TaskFrame == UNCHANGED <<whitelist_domains, join_times, clock, ret, nCmds, nMsgs,
                         nJoins, nTicks, nCalls>>

\* lines 281-290: the invocation starts and waits for the member lookup
Dispatch(i, e) ==
    /\ inflight[i].pc = "idle"
    /\ \A j \in 1..(i - 1) : inflight[j].pc # "idle"
    /\ inflight' = [inflight EXCEPT ![i] =
                       IF e.sender THEN [pc |-> "await_member", acts |-> <<>>, e |-> e]
                       ELSE [pc |-> "done", acts |-> <<>>, e |-> e]]
    /\ UNCHANGED <<chat_settings, FLOOD_BUCKET, hist, ev, out>>
    /\ TaskFrame

\* lines 291-358: the lookup has answered; everything up to the next await
Resume(i) ==
    /\ inflight[i].pc = "await_member"
    /\ LET e == inflight[i].e
           k == <<e.chat, e.user>>
           s == get_settings(chat_settings, e.chat)
       IN \E r \in security_filter_runs(chat_settings, whitelist_domains,
                                        join_times, FLOOD_BUCKET, clock, e) :
             /\ chat_settings' = r.cs
             /\ FLOOD_BUCKET' = r.FB
             /\ hist' = IF r.path = "flood"
                        THEN [hist EXCEPT ![k] = Append(@, Counted(i, clock, r, s, k))]
                        ELSE hist
             /\ inflight' = [inflight EXCEPT ![i] =
                                [pc |-> IF r.acts = <<>> THEN "done" ELSE "acting",
                                 acts |-> r.acts, e |-> e]]
    /\ UNCHANGED <<ev, out>>
    /\ TaskFrame

\* lines 316-361: the awaited actuator calls of the chosen rule
Finish(i) ==
    /\ inflight[i].pc = "acting"
    /\ inflight' = [inflight EXCEPT ![i].pc = "done"]
    /\ UNCHANGED <<chat_settings, FLOOD_BUCKET, hist, ev, out>>
    /\ TaskFrame

NextConc ==
    \/ /\ nTicks < MaxConcTicks
       /\ Tick(1)
    \/ /\ nCmds < MaxConcCmds
       /\ \E args \in ConcFloodArgs : flood_cmd(1, ST_ADMIN, args)
    \/ \E i \in Tasks, e \in ConcEvents : Dispatch(i, e)
    \/ \E i \in Tasks : Resume(i)
    \/ \E i \in Tasks : Finish(i)

SpecConc == Init /\ [][NextConc]_vars

(***************************************************************************)
(* The join scenario: members join and rejoin two chats, minutes pass, and *)
(* the members of chat 1 post plain or forwarded messages.                 *)
(***************************************************************************)
JoinEvents ==
    {Event(1, user, TRUE, ST_MEMBER, c) :
        user \in Users,
        c \in {Content(T_none, "none", "none"), Content(T_none, "date", "none")}}

JoinBudget == nJoins + nTicks + nMsgs < MaxJoinSteps

NextJoin ==
    \/ JoinBudget /\ \E d \in TickSteps : Tick(d)
    \/ JoinBudget /\ \E c \in Chats, members \in MemberLists : on_new_member(c, members)
    \/ JoinBudget /\ \E e \in JoinEvents : security_filter(e)

SpecJoin == Init /\ [][NextJoin]_vars

(***************************************************************************)
(* The admin commands on their own: each of the five configuration         *)
(* handlers invoked in a chat, by an administrator, a plain member or a    *)
(* sender whose lookup fails, with the arguments of the call kept in ret.  *)
(***************************************************************************)
AdminCommands ==
    {"antilinks_cmd", "whitelist_cmd", "flood_cmd", "newbie_cmd", "log_cmd"}

ArgsOf(h) ==
    CASE h = "antilinks_cmd" -> AntilinksArgs
      [] h = "whitelist_cmd" -> WhitelistArgs
      [] h = "flood_cmd" -> FloodArgs
      [] h = "newbie_cmd" -> NewbieArgs
      [] h = "log_cmd" -> LogArgs

admin_cmd_run(h, cs, wd, chat_id, status, args) ==
    CASE h = "antilinks_cmd" -> antilinks_cmd_run(cs, wd, chat_id, status, args)
      [] h = "whitelist_cmd" -> whitelist_cmd_run(cs, wd, chat_id, status, args)
      [] h = "flood_cmd" -> flood_cmd_run(cs, wd, chat_id, status, args)
      [] h = "newbie_cmd" -> newbie_cmd_run(cs, wd, chat_id, status, args)
      [] h = "log_cmd" -> log_cmd_run(cs, wd, chat_id, status, args)

call_admin_cmd(h, chat_id, status, args) ==
    LET run == admin_cmd_run(h, chat_settings, whitelist_domains, chat_id, status, args)
    IN /\ chat_settings' = run.cs
       /\ whitelist_domains' = run.wd
       /\ out' = run.acts
       /\ ev' = Ev(h, chat_id, status)
       /\ ret' = [op |-> h, chat |-> chat_id, args |-> args]
       /\ nCmds' = nCmds + 1
       /\ UNCHANGED <<join_times, FLOOD_BUCKET, clock, hist, nMsgs, nJoins, nTicks,
                      nCalls, inflight>>

CmdStatuses == {ST_ADMIN, ST_MEMBER, ST_ERROR}

NextCmd ==
    /\ nCmds < MaxCmdSteps
    /\ \E h \in AdminCommands, c \in Chats, st \in CmdStatuses :
          \E args \in ArgsOf(h) : call_admin_cmd(h, c, st, args)

SpecCmd == Init /\ [][NextCmd]_vars

(***************************************************************************)
(* The log scenario: an administrator of chat 1 switches the log on and    *)
(* off and sets the flood limits, members join, and post plain, link and   *)
(* forwarded messages whose log messages may fail to go out.               *)
(***************************************************************************)
LogEvents ==
    {Event(1, user, TRUE, ST_MEMBER, c) :
        user \in Users,
        c \in {Content(T_none, "none", "none"), Content(T_ex, "none", "none"),
               Content(T_none, "date", "none")}}

LogBudget == nCmds + nJoins + nMsgs < MaxLogSteps

NextLog ==
    \/ LogBudget /\ \E args \in {<<S_off>>, <<S_here>>} : log_cmd(1, ST_ADMIN, args)
    \/ LogBudget /\ \E args \in {<<S_0, S_1, S_1>>} : flood_cmd(1, ST_ADMIN, args)
    \/ LogBudget /\ \E members \in MemberLists : on_new_member(1, members)
    \/ LogBudget /\ \E e \in LogEvents : security_filter_sending(e)

SpecLog == Init /\ [][NextLog]_vars

(***************************************************************************)
(* The store on its own: the DB functions called directly.                 *)
(***************************************************************************)
StoreFrame == UNCHANGED <<join_times, FLOOD_BUCKET, clock, ev, out, hist, nCmds, nMsgs,
                          nJoins, nTicks, inflight>>

call_get_settings(chat_id) ==
    /\ chat_settings' = ensure_chat(chat_settings, chat_id)
    /\ ret' = [op |-> "get_settings", chat |-> chat_id,
               row |-> get_settings(chat_settings, chat_id)]
    /\ nCalls' = nCalls + 1
    /\ UNCHANGED whitelist_domains
    /\ StoreFrame

IntValues == {0, 1, 2, 99}
StrValues == {S_here, S_off}

call_set_setting(chat_id, key, value) ==
    /\ chat_settings' = set_setting(chat_settings, chat_id, key, value)
    /\ ret' = [op |-> "set_setting", chat |-> chat_id, key |-> key, val |-> value,
               raised |-> ~bind_ok(key, value)]
    /\ nCalls' = nCalls + 1
    /\ UNCHANGED whitelist_domains
    /\ StoreFrame

AddSpellings == {D_ex, D_EX, D_pad, D_sub}

call_add_whitelist(chat_id, domain) ==
    /\ chat_settings' = ensure_chat(chat_settings, chat_id)
    /\ whitelist_domains' = add_whitelist(whitelist_domains, chat_id, domain)
    /\ ret' = [op |-> "add_whitelist", chat |-> chat_id, dom |-> domain,
               before |-> list_whitelist(whitelist_domains, chat_id)]
    /\ nCalls' = nCalls + 1
    /\ StoreFrame

\* the hostnames extract_domains hands to domain_allowed are lower-cased
Hostnames == {D_ex, D_sub, D_not, D_evil}

call_domain_allowed(chat_id, domain) ==
    /\ chat_settings' = ensure_chat(chat_settings, chat_id)
    /\ ret' = [op |-> "domain_allowed", chat |-> chat_id, dom |-> domain,
               res |-> domain_allowed(whitelist_domains, chat_id, domain)]
    /\ nCalls' = nCalls + 1
    /\ UNCHANGED whitelist_domains
    /\ StoreFrame

CallBudget == nCalls < MaxCalls

NextStore ==
    \/ CallBudget /\ \E c \in Chats : call_get_settings(c)
    \/ CallBudget /\ \E c \in Chats, k \in IntKeys, v \in IntValues :
                        call_set_setting(c, k, v)
    \/ CallBudget /\ \E c \in Chats, v \in StrValues : call_set_setting(c, "log_mode", v)
    \/ CallBudget /\ \E c \in Chats, d \in AddSpellings : call_add_whitelist(c, d)
    \/ CallBudget /\ \E c \in Chats, d \in Hostnames : call_domain_allowed(c, d)

SpecStore == Init /\ [][NextStore]_vars

(***************************************************************************)
(* The vocabulary of the properties, stated from the specification and not *)
(* through the operators above.                                            *)
(***************************************************************************)
IsMsg(e) == e.h = "security_filter" /\ e.sender

ResolvedAdmin(e) == e.status = "administrator" \/ e.status = "creator"

HasRow(cs, c) == \E r \in cs : r.chat_id = c

RowOf(cs, c) == CHOOSE r \in cs : r.chat_id = c

DocumentedDefaults(c) ==
    [chat_id |-> c, anti_links |-> 1, flood_n |-> 6, flood_window_sec |-> 10,
     flood_mute_min |-> 15, newbie_protect_min |-> 15,
     log_mode |-> <<"h", "e", "r", "e">>]

RowOrDefault(cs, c) == IF HasRow(cs, c) THEN RowOf(cs, c) ELSE DocumentedDefaults(c)

WhitelistOf(wd, c) == {w \in {p[2] : p \in wd} : <<c, w>> \in wd}

\* d equals w, or d is some labels, a dot, and then w
SubdomainOf(d, w) ==
    \/ d = w
    \/ \E i \in 1..Len(d) : d[i] = "." /\ SubSeq(d, i + 1, Len(d)) = w

\* the hosts of the links of each message text
HostsOf(text) ==
    CASE text = T_ex -> {<<"e", ".", "c">>}
      [] text = T_mix -> {<<"w", "w", "w", ".", "e", ".", "c">>, <<"t", ".", "m", "e">>}
      [] OTHER -> {}

LinkViolation(cs, wd, e) ==
    /\ RowOrDefault(cs, e.chat).anti_links = 1
    /\ \E d \in HostsOf(e.text) :
          ~(\E w \in WhitelistOf(wd, e.chat) : SubdomainOf(d, w))

HasJoinRecord(jt, e) == \E r \in jt : r.chat_id = e.chat /\ r.user_id = e.user

\* now - joinTime < newbieProtectMin * 60, in ticks
Newbie(cs, jt, now, e) ==
    \E r \in jt :
        /\ r.chat_id = e.chat
        /\ r.user_id = e.user
        /\ now - r.joined_at_ts * TicksPerSec
              < RowOrDefault(cs, e.chat).newbie_protect_min * 60 * TicksPerSec

NewbieRule(cs, jt, now, e) ==
    Newbie(cs, jt, now, e) /\ (e.fwd # "none" \/ e.attach # "none")

Kinds(acts) == [i \in 1..Len(acts) |-> acts[i].a]

\* a Restrict that no Delete precedes is the flood rule's
FloodRestrict(acts) == \E i \in 1..Len(acts) :
    acts[i].a = "Restrict" /\ \A j \in 1..(i - 1) : acts[j].a # "Delete"

(***************************************************************************)
(* C1  Admin bypass.                                                       *)
(***************************************************************************)
\* C1: a message whose sender is resolved as administrator or owner emits no
\* Delete, no Restrict and no Log, whatever its content, the sender's join
\* record and the sender's flood bucket.
C1_AdminBypass ==
    (IsMsg(ev) /\ ResolvedAdmin(ev)) =>
        /\ ~HasA(out, "Delete")
        /\ ~HasA(out, "Restrict")
        /\ ~HasA(out, "Log")

\* an owner who is still a newbie posts a forwarded document with unlisted
\* links
C1_Witness ==
    /\ IsMsg(ev)
    /\ ev.status = "creator"
    /\ ev.text = T_mix /\ ev.fwd = "date" /\ ev.attach = "document"
    /\ LinkViolation(chat_settings, whitelist_domains, ev)
    /\ Newbie(chat_settings, join_times, clock, ev)
    /\ out = <<>>

(***************************************************************************)
(* C2, C3  Flood control over the history of counted messages.            *)
(* hist[k] lists the messages of key k that reached flood control: the     *)
(* time t, the number r of Restricts emitted, and the flood_n and          *)
(* flood_window_sec in force.                                              *)
(***************************************************************************)
\* the messages up to the i-th that lie within the window of the i-th
InWindow(h, i) == {j \in 1..i : h[i].t - h[j].t <= h[i].win * TicksPerSec}

SameConfig(h, S, i) == \A j \in S : h[j].n = h[i].n /\ h[j].win = h[i].win

First(S) == CHOOSE j \in S : \A m \in S : j <= m

\* the messages of InWindow(h, i) are a run of floodN+1 messages sent under
\* one configuration, with no older message inside the window of the first
FloodRun(h, i) ==
    LET S == InWindow(h, i)
    IN /\ SameConfig(h, S, i)
       /\ Cardinality(S) = h[i].n + 1
       /\ InWindow(h, First(S)) = {First(S)}

\* C2: floodN+1 counted messages of one user in one chat within
\* floodWindowSec yield exactly one Restrict, emitted on the last of them
\* and on none of the first floodN.
C2_FloodMonotonicity ==
    \A k \in Keys2 : \A i \in 1..Len(hist[k]) :
        FloodRun(hist[k], i) =>
            /\ hist[k][i].r = 1
            /\ \A j \in InWindow(hist[k], i) \ {i} : hist[k][j].r = 0

\* three messages with floodN = 2, the last one exactly floodWindowSec after
\* the first
C2_Witness ==
    \E k \in Keys2 :
        /\ Len(hist[k]) = 3
        /\ FloodRun(hist[k], 3)
        /\ hist[k][3].n = 2
        /\ hist[k][3].t - hist[k][1].t = hist[k][3].win * TicksPerSec
        /\ hist[k][3].win > 0

\* the i-th counted message and all before it are each more than the window
\* after their predecessor
SpacedOut(h, i) == \A j \in 2..i : h[j].t - h[j - 1].t > h[j].win * TicksPerSec

\* C3: whatever configuration the admin commands have set, messages spaced
\* more than floodWindowSec apart never draw a flood Restrict.
C3_WindowExpiry ==
    \A k \in Keys2 : \A i \in 1..Len(hist[k]) :
        SpacedOut(hist[k], i) => hist[k][i].r = 0

\* the same, for the configurations with floodN > 0
C3_PositiveFloodN ==
    \A k \in Keys2 : \A i \in 1..Len(hist[k]) :
        (SpacedOut(hist[k], i) /\ hist[k][i].n > 0) => hist[k][i].r = 0

(***************************************************************************)
(* C4 .. C7  The rules of security_filter and the settings they read.      *)
(***************************************************************************)
NewbieLinkCase ==
    /\ IsMsg(ev)
    /\ ~ResolvedAdmin(ev)
    /\ LinkViolation(chat_settings, whitelist_domains, ev)
    /\ Newbie(chat_settings, join_times, clock, ev)

\* C4: a non-admin newbie's message with a domain the whitelist does not
\* allow, under anti-links, emits exactly Delete, Log, Restrict(floodMuteMin),
\* Log, in that order.
C4_NewbieLinkDoubleAction ==
    NewbieLinkCase =>
        /\ Kinds(out) = <<"Delete", "Log", "Restrict", "Log">>
        /\ out[3].min = RowOf(chat_settings, ev.chat).flood_mute_min

\* the case itself is reached, with the four actions when both calls succeed
C4_CaseReached ==
    /\ NewbieLinkCase
    /\ Kinds(out) = <<"Delete", "Log", "Restrict", "Log">>

\* the link rule or the newbie forward/media rule matches the message
RuleMatches(cs, wd, jt, now, e) ==
    LinkViolation(cs, wd, e) \/ NewbieRule(cs, jt, now, e)

IsSubsequenceUpTo(b, n, old) ==
    \E f \in [1..n -> 1..Len(old)] :
        /\ \A i \in 1..n : b[i] = old[f[i]]
        /\ \A i \in 1..n, j \in 1..n : i < j => f[i] < f[j]

\* b is entries of old, in their order, followed by the one new timestamp
OneAppended(b, old, now) ==
    /\ Len(b) >= 1
    /\ Len(b) <= Len(old) + 1
    /\ b[Len(b)] = now
    /\ IsSubsequenceUpTo(b, Len(b) - 1, old)

C5_Step ==
    (nMsgs' = nMsgs + 1 /\ IsMsg(ev') /\ ~ResolvedAdmin(ev')) =>
        LET k == <<ev'.chat, ev'.user>>
        IN IF RuleMatches(chat_settings', whitelist_domains', join_times', clock', ev')
           THEN /\ FLOOD_BUCKET' = FLOOD_BUCKET
                /\ ~FloodRestrict(out')
           ELSE /\ OneAppended(FLOOD_BUCKET'[k], FLOOD_BUCKET[k], clock')
                /\ \A k2 \in Keys2 \ {k} : FLOOD_BUCKET'[k2] = FLOOD_BUCKET[k2]

\* C5: for a non-admin's message, a match of the link rule or of the newbie
\* forward/media rule leaves every flood bucket unchanged and emits no flood
\* Restrict; otherwise exactly one timestamp is appended to the sender's
\* bucket.
C5_RulePrecedence == [][C5_Step]_vars

\* a link violation of a user whose bucket already holds a counted message
C5_Witness ==
    /\ IsMsg(ev)
    /\ ~ResolvedAdmin(ev)
    /\ LinkViolation(chat_settings, whitelist_domains, ev)
    /\ Len(FLOOD_BUCKET[<<ev.chat, ev.user>>]) = 1
    /\ Len(hist[<<ev.chat, ev.user>>]) = 1
    /\ HasA(out, "Delete")

NoNewbieCase ==
    /\ IsMsg(ev)
    /\ ~ResolvedAdmin(ev)
    /\ \/ ~HasJoinRecord(join_times, ev)
       \/ RowOf(chat_settings, ev.chat).newbie_protect_min = 0

\* C6: a user without a join record, or any user under newbieProtectMin = 0,
\* is no newbie: a link violation yields Delete and Log and no Restrict,
\* and no other message of theirs is deleted.
C6_AbsentIsNotNewbie ==
    NoNewbieCase =>
        IF LinkViolation(chat_settings, whitelist_domains, ev)
        THEN Kinds(out) = <<"Delete", "Log">>
        ELSE ~HasA(out, "Delete")

\* what the code does keep of C6: never a newbie's Restrict or Delete
C6_NeverTreatedAsNewbie ==
    NoNewbieCase =>
        IF LinkViolation(chat_settings, whitelist_domains, ev)
        THEN Kinds(out) \in {<<"Delete">>, <<"Delete", "Log">>}
        ELSE ~HasA(out, "Delete")

\* C7: every stored floodN, floodWindowSec and floodMuteMin is > 0 and every
\* newbieProtectMin is >= 0.
C7_SettingsRange ==
    \A r \in chat_settings :
        /\ r.flood_n > 0
        /\ r.flood_window_sec > 0
        /\ r.flood_mute_min > 0
        /\ r.newbie_protect_min >= 0

(***************************************************************************)
(* C8 .. C10  The store.                                                   *)
(***************************************************************************)
OneRowPerChat(cs) == \A r1 \in cs, r2 \in cs : r1.chat_id = r2.chat_id => r1 = r2

OtherRows(cs, c) == {r \in cs : r.chat_id # c}

C8_SetStep ==
    (nCalls' = nCalls + 1 /\ ret'.op = "set_setting" /\ ~ret'.raised) =>
        LET c == ret'.chat
            old == RowOrDefault(chat_settings, c)
            new == RowOf(chat_settings', c)
        IN /\ HasRow(chat_settings', c)
           /\ new[ret'.key] = ret'.val
           /\ \A k \in (DOMAIN new) \ {ret'.key} : new[k] = old[k]
           /\ OtherRows(chat_settings', c) = OtherRows(chat_settings, c)
           /\ OneRowPerChat(chat_settings')

C8_GetStep ==
    (nCalls' = nCalls + 1 /\ ret'.op = "get_settings") =>
        LET c == ret'.chat
        IN /\ ret'.row = RowOrDefault(chat_settings, c)
           /\ chat_settings' = OtherRows(chat_settings, c) \cup {ret'.row}
           /\ OneRowPerChat(chat_settings')
           /\ HasRow(chat_settings, c) => chat_settings' = chat_settings

\* C8: an accepted set_setting makes get_settings return the value for that
\* field and changes nothing else, in that chat or another; get_settings
\* creates the documented default row for a chat without a row, once, and
\* otherwise returns the row as it is.
C8_SettingsRoundTrip == [][C8_SetStep /\ C8_GetStep]_vars

\* chat 2 is set to a value that is not the default while chat 1 holds a
\* configured row
C8_Witness ==
    /\ ret.op = "set_setting"
    /\ ret.chat = 2
    /\ ~ret.raised
    /\ HasRow(chat_settings, 1)
    /\ RowOf(chat_settings, 1) # DocumentedDefaults(1)
    /\ RowOf(chat_settings, 2)[ret.key] = ret.val
    /\ RowOf(chat_settings, 2)[ret.key] # DocumentedDefaults(2)[ret.key]

\* the domain each spelling stands for
SameDomain(a, b) ==
    LET Plain(d) == CASE d = D_EX -> <<"e", ".", "c">>
                      [] d = D_pad -> <<"e", ".", "c">>
                      [] OTHER -> d
    IN Plain(a) = Plain(b)

C9_Step ==
    (nCalls' = nCalls + 1 /\ ret'.op = "add_whitelist") =>
        LET c == ret'.chat
            same(wd) == {w \in WhitelistOf(wd, c) : SameDomain(w, ret'.dom)}
        IN /\ Cardinality(same(whitelist_domains')) = 1
           /\ same(whitelist_domains) # {} =>
                 /\ whitelist_domains' = whitelist_domains
                 /\ chat_settings' = chat_settings

\* C9: after add_whitelist the list holds exactly one entry for the domain,
\* however it was spelled, and adding a domain the list already holds changes
\* neither table.
C9_IdempotentAdd == [][C9_Step]_vars

\* the padded spelling added to a list that holds the domain already
C9_Witness ==
    /\ ret.op = "add_whitelist"
    /\ ret.dom = D_pad
    /\ ret.before = {<<"e", ".", "c">>}
    /\ WhitelistOf(whitelist_domains, ret.chat) = {<<"e", ".", "c">>}

\* C10: domain_allowed(chat, d) holds iff d is a whitelist entry of that
\* chat or a subdomain of one; e.c listed allows e.c and s.e.c, not ne.c nor
\* e.c.x; nothing is allowed under an empty list.
C10_SubdomainRule ==
    /\ \A c \in Chats, d \in Hostnames :
          domain_allowed(whitelist_domains, c, d)
             <=> \E w \in WhitelistOf(whitelist_domains, c) : SubdomainOf(d, w)
    /\ \A c \in Chats :
          WhitelistOf(whitelist_domains, c) = {D_ex} =>
             /\ domain_allowed(whitelist_domains, c, D_ex)
             /\ domain_allowed(whitelist_domains, c, D_sub)
             /\ ~domain_allowed(whitelist_domains, c, D_not)
             /\ ~domain_allowed(whitelist_domains, c, D_evil)
    /\ ret.op = "domain_allowed" =>
          /\ ret.res <=> \E w \in WhitelistOf(whitelist_domains, ret.chat) :
                            SubdomainOf(ret.dom, w)
          /\ WhitelistOf(whitelist_domains, ret.chat) = {} => ~ret.res

\* ne.c is refused in a chat that lists e.c while the other chat lists more
C10_Witness ==
    /\ ret.op = "domain_allowed"
    /\ ret.dom = D_not
    /\ ~ret.res
    /\ WhitelistOf(whitelist_domains, ret.chat) = {D_ex}
    /\ \E c \in Chats \ {ret.chat} : WhitelistOf(whitelist_domains, c) # {}

(***************************************************************************)
(* C11  Atomic per-key flood counting.  However the invocations in flight  *)
(* interleave at their awaits, no increment of a bucket is lost: as long   *)
(* as every flood-counted message of a (chat, user) was still inside the   *)
(* window when the latest one was counted, the bucket holds one entry per  *)
(* counted message, and no two of them compared the same count with        *)
(* flood_n.                                                                *)
(***************************************************************************)
AllInWindow(h) == \A j \in 1..Len(h) : h[j].t - h[1].t <= h[j].win * TicksPerSec

C11_AtomicFloodCounting ==
    \A k \in Keys2 :
        AllInWindow(hist[k]) =>
            /\ Len(FLOOD_BUCKET[k]) = Len(hist[k])
            /\ \A i \in 1..Len(hist[k]), j \in 1..Len(hist[k]) :
                   i # j => hist[k][i].cnt # hist[k][j].cnt

\* two invocations of one key overlapped (the one started later was counted
\* first, at the same instant as the other) while a third party to the key is
\* still awaiting its actuator
C11_Witness ==
    \E k \in Keys2 :
        LET h == hist[k]
        IN /\ Len(h) >= 2
           /\ AllInWindow(h)
           /\ h[1].task > h[2].task
           /\ h[1].t = h[2].t
           /\ \E i \in Tasks : /\ inflight[i].pc = "acting"
                                /\ <<inflight[i].e.chat, inflight[i].e.user>> = k

(***************************************************************************)
(* C12  Fail-safe admin resolution.  A message whose admin lookup raised   *)
(* is judged as a non-admin's: a link violation or a newbie's forward or   *)
(* media is answered with a Delete, and any other message is counted in    *)
(* the sender's bucket and draws a Restrict when the bucket exceeds        *)
(* flood_n.  It is never let through as an admin's.                        *)
(***************************************************************************)
C12_Step ==
    (nMsgs' = nMsgs + 1 /\ IsMsg(ev') /\ ev'.status = "error") =>
        LET row == RowOrDefault(chat_settings, ev'.chat)
            b == FLOOD_BUCKET'[<<ev'.chat, ev'.user>>]
        IN IF \/ LinkViolation(chat_settings, whitelist_domains, ev')
              \/ NewbieRule(chat_settings, join_times, clock, ev')
           THEN out' # <<>> /\ out'[1].a = "Delete"
           ELSE /\ b # <<>>
                /\ b[Len(b)] = clock
                /\ Len(b) > row.flood_n => FloodRestrict(out')

C12_FailSafeAdminResolution == [][C12_Step]_vars

\* the lookup fails for a newbie who posts an unlisted link: deleted and muted
C12_Witness ==
    /\ IsMsg(ev)
    /\ ev.status = "error"
    /\ LinkViolation(chat_settings, whitelist_domains, ev)
    /\ Newbie(chat_settings, join_times, clock, ev)
    /\ HasA(out, "Delete")
    /\ HasA(out, "Restrict")

(***************************************************************************)
(* C13  Delete-actuator failure does not change the decision.  When the    *)
(* delete call of a message fails, the remaining actions of the matched    *)
(* rule are still issued: the Log of a link violation or of a newbie's     *)
(* forward or media, and for a newbie's link violation also the            *)
(* Restrict(flood_mute_min).                                               *)
(***************************************************************************)
DeleteFailed(acts) == acts # <<>> /\ acts[1].a = "Delete" /\ ~acts[1].ok

C13_Step ==
    (nMsgs' = nMsgs + 1 /\ IsMsg(ev') /\ DeleteFailed(out')) =>
        /\ HasA(out', "Log")
        /\ ( /\ LinkViolation(chat_settings, whitelist_domains, ev')
             /\ Newbie(chat_settings, join_times, clock, ev') )
           => \E i \in 1..Len(out') :
                 /\ out'[i].a = "Restrict"
                 /\ out'[i].min = RowOrDefault(chat_settings, ev'.chat).flood_mute_min

C13_DeleteFailureKeepsDecision == [][C13_Step]_vars

(***************************************************************************)
(* C14  Latest join wins.  The join ledger holds at most one record per    *)
(* (chat, user).  A join event sets the record of each joining member to   *)
(* the second of the event and leaves every other record as it was; no     *)
(* other event changes the ledger.  Whether a member's forward is deleted  *)
(* as a newbie's is decided by that record, the latest join.               *)
(***************************************************************************)
JoinRecords(jt, c, u) == {r \in jt : r.chat_id = c /\ r.user_id = u}

Joining(r) == {r.members[i] : i \in 1..Len(r.members)}

C14_Step ==
    /\ \A c \in Chats, u \in Users : Cardinality(JoinRecords(join_times', c, u)) <= 1
    /\ IF nJoins' = nJoins + 1
       THEN \A c \in Chats, u \in Users :
               IF c = ret'.chat /\ u \in Joining(ret')
               THEN \A r \in JoinRecords(join_times', c, u) :
                       r.joined_at_ts = clock \div TicksPerSec
               ELSE JoinRecords(join_times', c, u) = JoinRecords(join_times, c, u)
       ELSE join_times' = join_times
    /\ (nJoins' = nJoins + 1 /\ ret'.members # <<>>) =>
          \A u \in Joining(ret') : JoinRecords(join_times', ret'.chat, u) # {}
    /\ (nMsgs' = nMsgs + 1 /\ IsMsg(ev') /\ ev'.fwd # "none") =>
          (HasA(out', "Delete") <=> Newbie(chat_settings, join_times, clock, ev'))

C14_LatestJoinWins == [][C14_Step]_vars

\* user 1 rejoined chat 1 after the window of the first join had run out,
\* user 2's record and chat 2's records were left alone, and the forward user
\* 1 posts now is deleted
C14_Witness ==
    /\ ret.op = "on_new_member"
    /\ ret.chat = 1
    /\ ret.members = <<1>>
    /\ \E r \in JoinRecords(ret.before, 1, 1) :
          /\ r.joined_at_ts < clock \div TicksPerSec
          /\ clock - r.joined_at_ts * TicksPerSec
                >= RowOrDefault(chat_settings, 1).newbie_protect_min * 60 * TicksPerSec
    /\ IsMsg(ev) /\ ev.chat = 1 /\ ev.user = 1 /\ ev.fwd = "date"
    /\ HasA(out, "Delete")

(***************************************************************************)
(* C15  Newbie forward/media rule.  For a non-admin's message without a    *)
(* link violation: a newbie's forward yields Delete and the forward Log    *)
(* and nothing else; otherwise a newbie's photo, video or document yields  *)
(* Delete and the media Log and nothing else; a non-newbie's message       *)
(* yields no Delete.                                                       *)
(***************************************************************************)
NoLinkCase(e) ==
    /\ IsMsg(e)
    /\ ~ResolvedAdmin(e)
    /\ ~LinkViolation(chat_settings, whitelist_domains, e)

DeleteAndLog(acts, text) ==
    /\ Kinds(acts) = <<"Delete", "Log">>
    /\ acts[2].text = text

C15_Step ==
    (nMsgs' = nMsgs + 1 /\ NoLinkCase(ev')) =>
        IF ~Newbie(chat_settings, join_times, clock, ev')
        THEN ~HasA(out', "Delete")
        ELSE IF ev'.fwd # "none"
        THEN DeleteAndLog(out', "Deleted forward from newbie")
        ELSE IF ev'.attach # "none"
        THEN DeleteAndLog(out', "Deleted media from newbie")
        ELSE ~HasA(out', "Delete")

C15_NewbieForwardMediaRule == [][C15_Step]_vars

\* the same with the one exception of a delete call that failed
C15_Step_DeleteSucceeds ==
    (nMsgs' = nMsgs + 1 /\ NoLinkCase(ev') /\ ~DeleteFailed(out')) =>
        IF ~Newbie(chat_settings, join_times, clock, ev')
        THEN ~HasA(out', "Delete")
        ELSE IF ev'.fwd # "none"
        THEN DeleteAndLog(out', "Deleted forward from newbie")
        ELSE IF ev'.attach # "none"
        THEN DeleteAndLog(out', "Deleted media from newbie")
        ELSE ~HasA(out', "Delete")

C15_RuleWhenDeleteSucceeds == [][C15_Step_DeleteSucceeds]_vars

(***************************************************************************)
(* C16  Malformed admin commands are rejected without effect.  An          *)
(* administrator's antilinks, whitelist, flood, newbie or log command with *)
(* a wrong argument count, a number that is not a decimal number, a value  *)
(* outside on|off or here|off, or a sub-command other than add, draws      *)
(* exactly one usage reply and changes no chat setting and no whitelist    *)
(* entry; a flood command changes all three flood fields to its arguments  *)
(* or none of them.                                                        *)
(***************************************************************************)
Numeric(tok) == tok \in {<<"0">>, <<"1">>, <<"2">>, <<"9", "9">>}

NumberOf(tok) ==
    CASE tok = <<"0">> -> 0 [] tok = <<"1">> -> 1 [] tok = <<"2">> -> 2
      [] tok = <<"9", "9">> -> 99

\* on|off, here|off and add in the letter cases the calls use
OnOff == {<<"o", "n">>, <<"o", "f", "f">>, <<"O", "F", "F">>}
HereOff == {<<"h", "e", "r", "e">>, <<"o", "f", "f">>, <<"O", "F", "F">>}
AddWord == {<<"a", "d", "d">>, <<"A", "d", "d">>}

Malformed(h, args) ==
    CASE h = "antilinks_cmd" -> Len(args) # 1 \/ args[1] \notin OnOff
      [] h = "log_cmd" -> Len(args) # 1 \/ args[1] \notin HereOff
      [] h = "whitelist_cmd" -> Len(args) # 2 \/ args[1] \notin AddWord
      [] h = "newbie_cmd" -> Len(args) # 1 \/ ~Numeric(args[1])
      [] h = "flood_cmd" -> Len(args) # 3 \/ \E i \in 1..Len(args) : ~Numeric(args[i])

SettingsSame(cs1, cs2) == \A c \in Chats : RowOrDefault(cs1, c) = RowOrDefault(cs2, c)

FloodFields(row) == <<row.flood_n, row.flood_window_sec, row.flood_mute_min>>

AdminCmdStep ==
    /\ nCmds' = nCmds + 1
    /\ ret'.op \in {"antilinks_cmd", "whitelist_cmd", "flood_cmd", "newbie_cmd", "log_cmd"}
    /\ ResolvedAdmin(ev')

C16_Step ==
    AdminCmdStep =>
        /\ Malformed(ret'.op, ret'.args) =>
              /\ Kinds(out') = <<"Reply">>
              /\ out'[1].text = "usage"
              /\ SettingsSame(chat_settings, chat_settings')
              /\ whitelist_domains' = whitelist_domains
        /\ ret'.op = "flood_cmd" =>
              LET old == FloodFields(RowOrDefault(chat_settings, ret'.chat))
                  new == FloodFields(RowOrDefault(chat_settings', ret'.chat))
              IN \/ new = old
                 \/ /\ ~Malformed(ret'.op, ret'.args)
                    /\ new = <<NumberOf(ret'.args[1]), NumberOf(ret'.args[2]),
                               NumberOf(ret'.args[3])>>

C16_MalformedRejected == [][C16_Step]_vars

\* what does hold: a malformed command changes nothing
C16_Step_NoEffect ==
    (AdminCmdStep /\ Malformed(ret'.op, ret'.args)) =>
        /\ SettingsSame(chat_settings, chat_settings')
        /\ whitelist_domains' = whitelist_domains
        /\ \A i \in 1..Len(out') : out'[i].a = "Reply" /\ out'[i].text = "usage"

C16_MalformedHasNoEffect == [][C16_Step_NoEffect]_vars

(***************************************************************************)
(* C17  Flood bucket invariant.  After a flood-counted message of (chat,   *)
(* user) at time now under window w, the bucket of that key ends with now, *)
(* holds only timestamps t with now - t <= w, still holds every earlier    *)
(* entry that lies within w, and so has length at least 1.  The buckets of *)
(* other keys are left as they were, and a step that is not a              *)
(* flood-counted message changes no bucket: nothing is trimmed in between. *)
(***************************************************************************)
FloodCounted ==
    /\ nMsgs' = nMsgs + 1
    /\ IsMsg(ev')
    /\ ~ResolvedAdmin(ev')
    /\ ~RuleMatches(chat_settings, whitelist_domains, join_times, clock, ev')

WithinWindow(t, now, w) == now - t <= w * TicksPerSec

C17_Step ==
    IF FloodCounted
    THEN LET k == <<ev'.chat, ev'.user>>
             w == RowOrDefault(chat_settings, ev'.chat).flood_window_sec
             b == FLOOD_BUCKET'[k]
             old == FLOOD_BUCKET[k]
         IN /\ Len(b) >= 1
            /\ b[Len(b)] = clock
            /\ \A i \in 1..Len(b) : WithinWindow(b[i], clock, w)
            /\ Len(b) = 1 + Cardinality({i \in 1..Len(old) : WithinWindow(old[i], clock, w)})
            /\ \A k2 \in Keys2 \ {k} : FLOOD_BUCKET'[k2] = FLOOD_BUCKET[k2]
    ELSE FLOOD_BUCKET' = FLOOD_BUCKET

C17_FloodBucketInvariant == [][C17_Step]_vars

\* the last message of a user dropped an entry that had aged out of the
\* window, while another user's bucket still holds one just as old
C17_Witness ==
    /\ IsMsg(ev)
    /\ \E k \in Keys2 :
          /\ k = <<ev.chat, ev.user>>
          /\ FLOOD_BUCKET[k] # <<>>
          /\ FLOOD_BUCKET[k][Len(FLOOD_BUCKET[k])] = clock
          /\ Len(hist[k]) > Len(FLOOD_BUCKET[k])
          /\ \E k2 \in Keys2 \ {k} : \E i \in 1..Len(FLOOD_BUCKET[k2]) :
                ~WithinWindow(FLOOD_BUCKET[k2][i], clock,
                              RowOrDefault(chat_settings, ev.chat).flood_window_sec)

(***************************************************************************)
(* C18  Only administrators change configuration.  An antilinks,           *)
(* whitelist, flood, newbie or log command of a sender who is not          *)
(* administrator or owner of the chat, or whose admin lookup fails,        *)
(* changes no chat setting and no whitelist entry, whatever its arguments. *)
(***************************************************************************)
C18_Step ==
    ( /\ nCmds' = nCmds + 1
      /\ ret'.op \in {"antilinks_cmd", "whitelist_cmd", "flood_cmd", "newbie_cmd",
                       "log_cmd"}
      /\ ~ResolvedAdmin(ev') )
    => /\ chat_settings' = chat_settings
       /\ whitelist_domains' = whitelist_domains

C18_OnlyAdminsConfigure == [][C18_Step]_vars

\* an administrator switched the log off; a plain member's well-formed
\* "/log here" is turned away and the log stays off
C18_Witness ==
    /\ ret.op = "log_cmd"
    /\ ret.args = << <<"h", "e", "r", "e">> >>
    /\ ev.status = "member"
    /\ HasRow(chat_settings, ret.chat)
    /\ RowOf(chat_settings, ret.chat).log_mode = <<"o", "f", "f">>
    /\ Len(out) = 1
    /\ out[1].text = "admins only"

(***************************************************************************)
(* C19  Log mode only affects logging.  With log_mode off no log message   *)
(* goes out for any event.  For every message and every state, the Delete  *)
(* and Restrict actions that can be emitted, together with the flood       *)
(* buckets that result, are the same under log_mode off and under          *)
(* log_mode here, whichever log messages fail to go out; a failed send     *)
(* changes no Delete and no Restrict of its run.                           *)
(***************************************************************************)
Decisions(acts) == SelectSeq(acts, LAMBDA a : a.a = "Delete" \/ a.a = "Restrict")

LogSent(acts) == \E i \in 1..Len(acts) : acts[i].a = "Log" /\ acts[i].ok

\* the settings with the log mode of chat c switched to mode
WithLogMode(cs, c, mode) ==
    {[RowOrDefault(cs, c) EXCEPT !.log_mode = mode]} \cup {r \in cs : r.chat_id # c}

\* every (decisions, buckets, messages sent) the handler can end with
Outcomes(cs, e) ==
    UNION {{[dec |-> Decisions(d), FB |-> r.FB, sent |-> LogSent(d)] :
                d \in log_sends(r.acts)} :
            r \in security_filter_runs(cs, whitelist_domains, join_times,
                                       FLOOD_BUCKET, clock, e)}

OutcomesNoFailure(cs, e) ==
    {[dec |-> Decisions(r.acts), FB |-> r.FB] :
        r \in security_filter_runs(cs, whitelist_domains, join_times,
                                   FLOOD_BUCKET, clock, e)}

Decided(outcomes) == {[dec |-> o.dec, FB |-> o.FB] : o \in outcomes}

C19_LogModeOnlyLogs ==
    /\ (IsMsg(ev) /\ RowOrDefault(chat_settings, ev.chat).log_mode = <<"o", "f", "f">>)
          => ~LogSent(out)
    /\ \A e \in LogEvents :
          LET here == WithLogMode(chat_settings, e.chat, <<"h", "e", "r", "e">>)
              off == WithLogMode(chat_settings, e.chat, <<"o", "f", "f">>)
          IN /\ \A o \in Outcomes(off, e) : ~o.sent
             /\ Decided(Outcomes(here, e)) = Decided(Outcomes(off, e))
             /\ Decided(Outcomes(here, e)) = OutcomesNoFailure(here, e)

\* the log is off and a newbie posts an unlisted link: deleted and muted, and
\* neither log message goes out
C19_Witness ==
    /\ IsMsg(ev)
    /\ RowOrDefault(chat_settings, ev.chat).log_mode = <<"o", "f", "f">>
    /\ Kinds(out) = <<"Delete", "Log", "Restrict", "Log">>
    /\ ~LogSent(out)

\* the log is on, the send of the first log message fails, and the mute and
\* its log message follow all the same
C19_FailedSendReached ==
    /\ IsMsg(ev)
    /\ Kinds(out) = <<"Delete", "Log", "Restrict", "Log">>
    /\ ~out[2].ok
    /\ out[4].ok

(***************************************************************************)
(* C20  Flood state is not reset by a mute.  Over the counted messages of  *)
(* a (chat, user): when the messages within the window of the i-th were    *)
(* all counted under one flood configuration, the count the i-th compares  *)
(* is the number of those messages, muted or not, and the i-th emits one   *)
(* Restrict if that number exceeds flood_n and none otherwise.  So further *)
(* messages keep drawing Restricts while more than flood_n timestamps are  *)
(* inside the window, and stop drawing them once enough have aged out.     *)
(***************************************************************************)
C20_MuteKeepsFloodState ==
    \A k \in Keys2 : \A i \in 1..Len(hist[k]) :
        LET h == hist[k]
            S == InWindow(h, i)
        IN SameConfig(h, S, i) =>
              /\ h[i].cnt = Cardinality(S)
              /\ h[i].r = IF Cardinality(S) > h[i].n THEN 1 ELSE 0

\* flood_n = 1: the second message of a burst is muted, and the third,
\* counted on top of the two, is muted again
C20_Witness ==
    \E k \in Keys2 :
        LET h == hist[k]
        IN /\ Len(h) = 3
           /\ h[3].n = 1
           /\ SameConfig(h, InWindow(h, 3), 3)
           /\ h[1].r = 0 /\ h[2].r = 1 /\ h[3].r = 1
           /\ h[3].cnt = 3
           /\ Len(FLOOD_BUCKET[k]) = 3

\* flood_n = 1: a message that comes after the burst has aged out of the
\* window draws no Restrict
C20_StopReached ==
    \E k \in Keys2 :
        LET h == hist[k]
        IN /\ Len(h) = 3
           /\ h[3].n = 1
           /\ SameConfig(h, {1, 2, 3}, 3)
           /\ h[1].r = 0 /\ h[2].r = 1 /\ h[3].r = 0
           /\ h[3].cnt = 1

====
